---- MODULE Spec2Model ----
(***************************************************************************)
(* AdvancedRanking (src/ranking.py): BM25 / BM25+ relevance, the           *)
(* eigenvector authority computed at construction, the thread-pool fan-out *)
(* of rank_documents and the query boosting transform.                     *)
(*                                                                         *)
(* Numbers.  A Python float is modelled by a record [tag, v]: tag "fin"    *)
(* carries the value in thousandths (fixed point, truncated toward zero),  *)
(* tags "nan" and "inf" are the IEEE specials numpy produces on a division *)
(* by zero.  Authority values are kept as exact fractions num/den.         *)
(***************************************************************************)
EXTENDS Integers, Sequences, FiniteSets, TLC

VARIABLES
    inverted_index,   \* self.inverted_index: [terms: str key -> posting, ints: int key -> posting]
    doc_lengths,      \* self.doc_lengths: doc id -> token count
    avg_doc_length,   \* self.avg_doc_length, thousandths
    page_rank_scores, \* self.page_rank_scores: [keys, num, den]
    init_pc,          \* "new" | "ready" | "raised": AdvancedRanking.__init__
    pr_status,        \* which exit calculate_page_rank_scores_scipy took
    call_pc,          \* "idle" | "collecting" | "unwinding" | "returned" | "raised"
    query_terms,      \* expand_query(query) of the running call
    futures,          \* doc id -> [st, val]: the scoring task of each document
    completion,       \* doc ids in the order as_completed yields their futures
    collected,        \* how many completed futures the for loop has consumed
    scores,           \* the local list `scores` of rank_documents
    sorted_results,   \* the value rank_documents returned
    tunables,         \* self.k1, self.b, self.k1_plus, self.b_plus (thousandths)
    bm,               \* one evaluation of the two BM25 variants (pure function)
    boost             \* one evaluation of apply_boosting (pure function)

vars == <<inverted_index, doc_lengths, avg_doc_length, page_rank_scores, init_pc,
          pr_status, call_pc, query_terms, futures, completion, collected, scores,
          sorted_results, tunables, bm, boost>>

rankerVars == <<inverted_index, doc_lengths, avg_doc_length, page_rank_scores,
                init_pc, pr_status, tunables>>
callVars == <<call_pc, query_terms, futures, completion, collected, scores,
              sorted_results>>

-----------------------------------------------------------------------------
(* Bounds *)

MaxDocs == 3
MaxQueryLen == 1
MaxVec == 1
MaxBoostLen == 2

(* Program constants: the defaults of __init__, in thousandths. *)
K1 == 1500
B == 750
K1Plus == 1800
BPlus == 500
ContentWeight == 700
PagerankWeight == 300

Milli == 10 * 10 * 10

Terms == {"cat", "dog"}
Malformed == -1   \* a posting whose statistics are not a mapping (None)
Absent == 0       \* the document is not a key of the posting

-----------------------------------------------------------------------------
(* Floats *)

Fin(x) == [tag |-> "fin", v |-> x]
NaN == [tag |-> "nan", v |-> 0]
Inf(s) == [tag |-> "inf", v |-> s]

Sign(x) == IF x > 0 THEN 1 ELSE IF x < 0 THEN -1 ELSE 0

TDiv(a, b) == IF a >= 0 THEN a \div b ELSE -((-a) \div b)

\* a / b, numpy semantics: 0/0 is nan, x/0 is +-inf, never an exception.
FDiv(a, b) ==
    IF a.tag = "nan" \/ b.tag = "nan" THEN NaN
    ELSE IF a.tag = "inf" THEN (IF b.tag = "inf" THEN NaN
                                ELSE Inf(a.v * (IF b.v < 0 THEN -1 ELSE 1)))
    ELSE IF b.tag = "inf" THEN Fin(0)
    ELSE IF b.v = 0 THEN (IF a.v = 0 THEN NaN ELSE Inf(Sign(a.v)))
    ELSE Fin(Sign(a.v) * Sign(b.v)
             * (((IF a.v < 0 THEN -a.v ELSE a.v) * Milli)
                \div (IF b.v < 0 THEN -b.v ELSE b.v)))

\* a * b: nan propagates, inf * 0 is nan.
FMul(a, b) ==
    IF a.tag = "nan" \/ b.tag = "nan" THEN NaN
    ELSE IF a.tag = "inf" \/ b.tag = "inf"
         THEN (IF a.v = 0 \/ b.v = 0 THEN NaN ELSE Inf(Sign(a.v) * Sign(b.v)))
    ELSE Fin(TDiv(a.v * b.v, Milli))

FAdd(a, b) ==
    IF a.tag = "nan" \/ b.tag = "nan" THEN NaN
    ELSE IF a.tag = "inf" /\ b.tag = "inf"
         THEN (IF a.v = b.v THEN a ELSE NaN)
    ELSE IF a.tag = "inf" THEN a
    ELSE IF b.tag = "inf" THEN b
    ELSE Fin(a.v + b.v)

\* ln(m) in millionths, m = 1..16 (math.log).
LnMicro == <<0, 693147, 1098612, 1386294, 1609438, 1791759, 1945910, 2079442,
             2197225, 2302585, 2397895, 2484907, 2564949, 2639057, 2708050,
             2772589>>

-----------------------------------------------------------------------------
(* The index *)

NoPosting(docs) == [d \in docs |-> Absent]

\* inverted_index.get(term, {})
Posting(index, term, docs) ==
    IF term \in DOMAIN index.terms THEN index.terms[term] ELSE NoPosting(docs)

\* the keys of a posting
PostingDocs(p) == {d \in DOMAIN p : p[d] # Absent}

RECURSIVE SumOver(_, _)
SumOver(f, S) ==
    IF S = {} THEN 0
    ELSE LET x == CHOOSE y \in S : TRUE IN f[x] + SumOver(f, S \ {x})

\* indexer.calculate_avg_doc_length(): the mean document length.
CalculateAvgDocLength(lengths) ==
    IF DOMAIN lengths = {} THEN 0
    ELSE (SumOver(lengths, DOMAIN lengths) * Milli) \div Cardinality(DOMAIN lengths)

-----------------------------------------------------------------------------
(* Relevance *)

\* calculate_idf: ln((N - n + 0.5) / (n + 0.5) + 1.0) = ln((2N + 2) / (2n + 1))
calculate_idf(index, lengths, term) ==
    LET n == Cardinality(PostingDocs(Posting(index, term, DOMAIN lengths)))
        N == Cardinality(DOMAIN lengths)
    IN  Fin((LnMicro[2 * N + 2] - LnMicro[2 * n + 1] + 500) \div Milli)

\* calculate_tf raises on a posting entry that is not a mapping.
TfRaises(index, lengths, term, doc_id) ==
    Posting(index, term, DOMAIN lengths)[doc_id] = Malformed

calculate_tf(index, lengths, term, doc_id) ==
    Posting(index, term, DOMAIN lengths)[doc_id]

\* doc_lengths / (avg_doc_length + 1e-6): the epsilon only matters when the
\* average is 0, and then every length is 0.
LengthRatio(len, avg) == IF avg = 0 THEN 0 ELSE (len * Milli * Milli) \div avg

\* denominators = tfs + k * (1 - b + b * ratio)
Denominator(tf, k, b, len, avg) ==
    tf * Milli + TDiv(k * (Milli - b + TDiv(b * LengthRatio(len, avg), Milli)), Milli)

\* numerators / denominators * non_zero_denominators, one element
MaskedQuotient(tf, k, b, len, avg) ==
    LET den == Denominator(tf, k, b, len, avg)
    IN  FMul(FDiv(Fin(tf * (k + Milli)), Fin(den)),
             Fin(IF den # 0 THEN Milli ELSE 0))

RECURSIVE SumTerms(_, _, _, _, _, _, _)
SumTerms(index, lengths, avg, terms, doc_id, k, b) ==
    IF terms = <<>> THEN Fin(0)
    ELSE FAdd(FMul(calculate_idf(index, lengths, Head(terms)),
                   MaskedQuotient(calculate_tf(index, lengths, Head(terms), doc_id),
                                  k, b, lengths[doc_id], avg)),
              SumTerms(index, lengths, avg, Tail(terms), doc_id, k, b))

\* whether the scoring function raises: np.vectorize on a size-0 input
\* (ValueError), or a malformed posting entry of a query term.
ScoreRaises(index, lengths, terms, doc_id) ==
    \/ terms = <<>>
    \/ \E i \in 1..Len(terms) : TfRaises(index, lengths, terms[i], doc_id)

\* the common body of calculate_bm25_score and calculate_bm25_plus_score
Bm25(index, lengths, avg, terms, doc_id, k, b) ==
    IF ScoreRaises(index, lengths, terms, doc_id)
    THEN [st |-> "raised", val |-> Fin(0)]
    ELSE [st |-> "done", val |-> SumTerms(index, lengths, avg, terms, doc_id, k, b)]

calculate_bm25_score(index, lengths, avg, terms, doc_id, k, b) ==
    Bm25(index, lengths, avg, terms, doc_id, k, b)

calculate_bm25_plus_score(index, lengths, avg, terms, doc_id, k, b) ==
    Bm25(index, lengths, avg, terms, doc_id, k, b)

-----------------------------------------------------------------------------
(* Authority mapping *)

EmptyScores == [keys |-> {}, num |-> <<>>, den |-> 1]

\* page_rank_scores.get(doc_id, 0), thousandths
GetAuthority(prs, doc_id) ==
    IF doc_id \in prs.keys
    THEN FDiv(Fin(prs.num[doc_id] * Milli), Fin(prs.den * Milli))
    ELSE Fin(0)

\* combine_scores with the two weights swapped
combine_scores_swapped(content_score, pagerank_score) ==
    FAdd(FMul(Fin(PagerankWeight), content_score),
         FMul(Fin(ContentWeight), pagerank_score))

combine_scores(content_score, pagerank_score) ==
    FAdd(FMul(Fin(ContentWeight), content_score),
         FMul(Fin(PagerankWeight), pagerank_score))

-----------------------------------------------------------------------------
(* sorted(scores, key=lambda x: x[1], reverse=True) *)

\* a < b on floats: False whenever either side is nan, -inf below and +inf
\* above every finite number
FLt(a, b) ==
    IF a.tag = "nan" \/ b.tag = "nan" THEN FALSE
    ELSE IF a.tag = "inf" THEN a.v < 0 /\ ~(b.tag = "inf" /\ b.v < 0)
    ELSE IF b.tag = "inf" THEN b.v > 0
    ELSE a.v < b.v

Reverse(s) == [i \in 1..Len(s) |-> s[Len(s) + 1 - i]]

\* count_run: the run goes on from position i while each key is (descending)
\* below, or (ascending) not below, the key before it
RECURSIVE RunEnd(_, _, _)
RunEnd(s, i, descending) ==
    IF i > Len(s) THEN Len(s)
    ELSE IF FLt(s[i][2], s[i - 1][2]) = descending THEN RunEnd(s, i + 1, descending)
    ELSE i - 1

\* count_run: the length of the run at the head of s and whether it is
\* strictly descending
CountRun(s) ==
    IF Len(s) = 1 THEN [n |-> 1, descending |-> FALSE]
    ELSE LET descending == FLt(s[2][2], s[1][2])
         IN  [n |-> RunEnd(s, 3, descending), descending |-> descending]

\* binarysort's search for the pivot's place in the sorted prefix p:
\* l and r count the elements before the candidate places
RECURSIVE BinaryPlace(_, _, _, _)
BinaryPlace(p, pivot, l, r) ==
    IF l >= r THEN l
    ELSE LET m == l + ((r - l) \div 2)
         IN  IF FLt(pivot[2], p[m + 1][2]) THEN BinaryPlace(p, pivot, l, m)
             ELSE BinaryPlace(p, pivot, m + 1, r)

\* binarysort: s[1..start] is sorted, the elements after it are inserted one
\* by one
RECURSIVE BinarySort(_, _)
BinarySort(s, start) ==
    IF start >= Len(s) THEN s
    ELSE LET p == SubSeq(s, 1, start)
             pivot == s[start + 1]
             l == BinaryPlace(p, pivot, 0, start)
         IN  BinarySort(SubSeq(p, 1, l) \o <<pivot>> \o SubSeq(p, l + 1, start)
                          \o SubSeq(s, start + 2, Len(s)),
                        start + 1)

\* list.sort on fewer than 64 elements: one run, found by count_run, reversed
\* when descending, completed by binary insertion
ListSort(s) ==
    IF Len(s) < 2 THEN s
    ELSE LET run == CountRun(s)
             head == SubSeq(s, 1, run.n)
         IN  BinarySort((IF run.descending THEN Reverse(head) ELSE head)
                          \o SubSeq(s, run.n + 1, Len(s)),
                        run.n)

\* reverse=True: the list is reversed, sorted ascending, reversed again
SortedByScoreReverse(s) == Reverse(ListSort(Reverse(s)))

-----------------------------------------------------------------------------
(* calculate_page_rank_scores_scipy *)

\* graph.add_nodes_from(doc_lengths.keys()); add_edge(key, link_id) for every
\* key of the index and every key of its posting.  Nodes are kept apart by
\* Python type: str keys and int identifiers.
StrNodes(index) == {t \in DOMAIN index.terms : PostingDocs(index.terms[t]) # {}}

IntNodes(index, lengths) ==
    DOMAIN lengths
    \cup {k \in DOMAIN index.ints : PostingDocs(index.ints[k]) # {}}
    \cup UNION {PostingDocs(index.ints[k]) : k \in DOMAIN index.ints}
    \cup UNION {PostingDocs(index.terms[t]) : t \in DOMAIN index.terms}

IntEdges(index) ==
    {e \in (DOMAIN index.ints) \X (UNION {PostingDocs(index.ints[k]) : k \in DOMAIN index.ints}) :
        e[2] \in PostingDocs(index.ints[e[1]])}

HasEdges(index) == StrNodes(index) # {} \/ IntEdges(index) # {}

\* `if not self.inverted_index`
IndexEmpty(index) == DOMAIN index.terms = {} /\ DOMAIN index.ints = {}

\* sorted(graph.nodes()) raises TypeError when a str and an int are compared
SortedRaises(index, lengths) ==
    StrNodes(index) # {} /\ IntNodes(index, lengths) # {}

RECURSIVE Closure(_, _)
Closure(R, n) ==
    IF n = 0 THEN R
    ELSE Closure(R \cup {e \in {<<x[1], y[2]>> : x \in R, y \in R} :
                            \E x \in R, y \in R : x[2] = y[1] /\ e = <<x[1], y[2]>>},
                 n - 1)

HasCycle(nodes, edges) ==
    \E e \in Closure(edges, Cardinality(nodes)) : e[1] = e[2]

\* The eigenvalue of largest real part of the adjacency matrix of a graph
\* whose nodes have at most one out-edge (the graphs generated here): 1 when
\* the graph has a cycle, 0 when it is acyclic (nilpotent matrix).
DominantEigenvalue(nodes, edges) == IF HasCycle(nodes, edges) THEN 1 ELSE 0

\* (matrix.T v)[j]: the sum of v over the in-neighbours of j
InSum(v, edges, j) == SumOver(v, {i \in DOMAIN v : <<i, j>> \in edges})

\* eigs(matrix.T, k=1, which='LR'): raises when k >= n - 1 or on
\* non-convergence; otherwise returns some eigenvector of the dominant
\* eigenvalue, of arbitrary scale and sign.  Eigenvectors are drawn from the
\* integer lattice -MaxVec..MaxVec.
EigsOutcomes(nodes, edges) ==
    LET lambda == DominantEigenvalue(nodes, edges)
    IN  {[ok |-> FALSE, vec |-> <<>>]}
        \cup (IF 1 >= Cardinality(nodes) - 1 THEN {}
              ELSE {[ok |-> TRUE, vec |-> v] :
                      v \in {w \in [nodes -> -MaxVec..MaxVec] :
                               /\ \E i \in nodes : w[i] # 0
                               /\ \A j \in nodes :
                                    InSum(w, edges, j) = lambda * w[j]}})

\* scores /= scores.sum(); dict(zip(sorted(graph.nodes()), scores.real))
Normalized(nodes, v) ==
    LET s == SumOver(v, nodes)
    IN  [keys |-> nodes,
         num |-> [i \in nodes |-> IF s < 0 THEN -v[i] ELSE v[i]],
         den |-> IF s < 0 THEN -s ELSE s]

\* the handler without the try: the exception leaves the function
UncaughtException(status) ==
    [raised |-> TRUE, scores |-> EmptyScores, status |-> status]

\* except Exception: logging.error(...); return {}
CaughtException(status) ==
    [raised |-> FALSE, scores |-> EmptyScores, status |-> status]

Returned(scores_, status) ==
    [raised |-> FALSE, scores |-> scores_, status |-> status]

\* every way the call can end on this index
calculate_page_rank_scores_scipy(index, lengths) ==
    IF IndexEmpty(index) THEN {Returned(EmptyScores, "empty_index")}
    ELSE IF (IntNodes(index, lengths) = {} /\ StrNodes(index) = {}) \/ ~HasEdges(index)
         THEN {Returned(EmptyScores, "no_nodes_or_edges")}
    ELSE IF SortedRaises(index, lengths) THEN {CaughtException("sort_raised")}
    ELSE {IF o.ok THEN Returned(Normalized(IntNodes(index, lengths), o.vec), "ok")
                  ELSE CaughtException("solver_raised") :
            o \in EigsOutcomes(IntNodes(index, lengths), IntEdges(index))}

-----------------------------------------------------------------------------
(* apply_boosting *)

\* int(x): truncation toward zero
IntOf(m) == TDiv(m, Milli)

\* [term] * n
RECURSIVE Copies(_, _)
Copies(term, n) == IF n <= 0 THEN <<>> ELSE <<term>> \o Copies(term, n - 1)

\* boosted_query.append(term) on both branches
BoostedTermAppend(term, boost_terms) == <<term>>

\* one iteration of the loop: what is appended for `term`
BoostedTerm(term, boost_terms) ==
    IF term \in DOMAIN boost_terms
    THEN Copies(term, IntOf(boost_terms[term]))
    ELSE <<term>>

RECURSIVE apply_boosting(_, _)
apply_boosting(terms, boost_terms) ==
    IF terms = <<>> THEN <<>>
    ELSE BoostedTerm(Head(terms), boost_terms) \o apply_boosting(Tail(terms), boost_terms)

-----------------------------------------------------------------------------
(* Inputs *)

DocSets == {1..n : n \in 0..MaxDocs}

\* token counts: every document 10 tokens, 5 * id tokens, or empty documents
LengthProfiles(docs) ==
    {[d \in docs |-> 10], [d \in docs |-> 5 * d], [d \in docs |-> 0]}

NoKeys == [terms |-> <<>>, ints |-> <<>>]

\* str-keyed indexes: no key, or the key "cat" with any posting
TermIndexes(docs, stats) == {<<>>} \cup {("cat" :> p) : p \in [docs -> stats]}

Succ(k, docs) == IF k + 1 \in docs THEN k + 1 ELSE 1

LinkTo(docs, target) == [d \in docs |-> IF d = target THEN 1 ELSE Absent]

\* int-keyed link table in which every document references its successor
CycleIndex(docs) == [k \in docs |-> LinkTo(docs, Succ(k, docs))]

\* int-keyed link tables: every key in docs \cup {MaxDocs + 1} is missing,
\* references itself, or references its successor
LinkTables(docs) ==
    {t \in UNION {[K -> {"self", "succ"}] : K \in SUBSET (docs \cup {MaxDocs + 1})} :
        \A k \in DOMAIN t : k \notin docs => t[k] = "succ"}

LinkIndex(docs, table) ==
    [k \in DOMAIN table |->
        IF table[k] = "self" THEN LinkTo(docs, k)
        ELSE LinkTo(docs, Succ(k, docs))]

Defaults == [k1 |-> K1, b |-> B, k1_plus |-> K1Plus, b_plus |-> BPlus]

TunableChoices ==
    {[k1 |-> x[1], b |-> x[2], k1_plus |-> y[1], b_plus |-> y[2]] :
        x \in {<<K1, B>>, <<0, B>>, <<K1, Milli>>},
        y \in {<<K1Plus, BPlus>>, <<0, BPlus>>, <<K1Plus, Milli>>}}

RECURSIVE SeqsUpTo(_, _)
SeqsUpTo(S, n) ==
    IF n = 0 THEN {<<>>}
    ELSE SeqsUpTo(S, n - 1)
         \cup {Append(q, t) : q \in {r \in SeqsUpTo(S, n - 1) : Len(r) = n - 1}, t \in S}

Queries == SeqsUpTo(Terms, MaxQueryLen)

Multipliers == {-500, 0, 500, 1000, 2000, 2700}

BoostMaps == UNION {[K -> Multipliers] : K \in SUBSET Terms}

IdleCall ==
    /\ call_pc = "idle"
    /\ query_terms = <<>>
    /\ futures = <<>>
    /\ completion = <<>>
    /\ collected = 0
    /\ scores = <<>>
    /\ sorted_results = <<>>

NoBm == [st |-> "new", terms |-> <<>>, doc |-> 0,
         bm25 |-> [st |-> "pending", val |-> Fin(0)],
         plus |-> [st |-> "pending", val |-> Fin(0)]]

NoBoost == [st |-> "new", query_terms |-> <<>>, boost_terms |-> <<>>, out |-> <<>>]

NewRanker(index, lengths, t) ==
    /\ inverted_index = index
    /\ doc_lengths = lengths
    /\ avg_doc_length = CalculateAvgDocLength(lengths)
    /\ tunables = t
    /\ page_rank_scores = EmptyScores
    /\ init_pc = "new"
    /\ pr_status = "none"

-----------------------------------------------------------------------------
(* AdvancedRanking.__init__ and rank_documents *)

\* the ranking engine: a str-keyed index, a link table, or both
Init ==
    /\ \E docs \in DocSets :
       \E lengths \in LengthProfiles(docs) \ {[d \in docs |-> 0]} :
       \E index \in
            {[terms |-> t, ints |-> <<>>] :
                 t \in TermIndexes(docs, {Absent, 2, Malformed})}
            \cup {[terms |-> t, ints |-> CycleIndex(docs)] :
                 t \in {<<>>, ("cat" :> LinkTo(docs, 1))}} :
       \E t \in {Defaults, [Defaults EXCEPT !.k1_plus = 0]} :
         NewRanker(index, lengths, t)
    /\ IdleCall
    /\ bm = NoBm
    /\ boost = NoBoost

\* __init__, line 33: self.page_rank_scores = self.calculate_page_rank_scores_scipy()
Construct ==
    /\ init_pc = "new"
    /\ \E r \in calculate_page_rank_scores_scipy(inverted_index, doc_lengths) :
         /\ page_rank_scores' = r.scores
         /\ pr_status' = r.status
         /\ init_pc' = IF r.raised THEN "raised" ELSE "ready"
    /\ UNCHANGED <<inverted_index, doc_lengths, avg_doc_length, tunables, bm, boost>>
    /\ UNCHANGED callVars

Pending == [st |-> "pending", val |-> Fin(0)]

\* a call that recomputes the authority mapping before ranking
StartRankRecompute(terms) ==
    /\ init_pc = "ready"
    /\ call_pc \in {"idle", "returned", "raised"}
    /\ query_terms' = terms
    /\ futures' = [d \in DOMAIN doc_lengths |-> Pending]
    /\ completion' = <<>>
    /\ collected' = 0
    /\ scores' = <<>>
    /\ sorted_results' = <<>>
    /\ call_pc' = "collecting"
    /\ \E r \in calculate_page_rank_scores_scipy(inverted_index, doc_lengths) :
         page_rank_scores' = r.scores
    /\ UNCHANGED <<inverted_index, doc_lengths, avg_doc_length, init_pc, pr_status,
                   tunables, bm, boost>>

\* lines 126-131: expand the query, submit one task per key of doc_lengths
StartRank(terms) ==
    /\ init_pc = "ready"
    /\ call_pc \in {"idle", "returned", "raised"}
    /\ query_terms' = terms
    /\ futures' = [d \in DOMAIN doc_lengths |-> Pending]
    /\ completion' = <<>>
    /\ collected' = 0
    /\ scores' = <<>>
    /\ sorted_results' = <<>>
    /\ call_pc' = "collecting"
    /\ UNCHANGED <<rankerVars, bm, boost>>

\* a worker thread runs calculate_bm25_plus_score(query_terms, doc_id) to its end
TaskFinish(doc_id) ==
    /\ call_pc \in {"collecting", "unwinding"}
    /\ doc_id \in DOMAIN futures
    /\ futures[doc_id].st = "pending"
    /\ futures' = [futures EXCEPT ![doc_id] =
                     calculate_bm25_plus_score(inverted_index, doc_lengths,
                                               avg_doc_length, query_terms, doc_id,
                                               tunables.k1_plus, tunables.b_plus)]
    /\ completion' = Append(completion, doc_id)
    /\ UNCHANGED <<rankerVars, call_pc, query_terms, collected, scores,
                   sorted_results, bm, boost>>

\* futures[future]: the document of the future being consumed
FutureDoc(i) == completion[i]

\* lines 134-138 for one result
ScoreEntry(doc_id, bm25_score) ==
    <<doc_id, combine_scores(bm25_score, GetAuthority(page_rank_scores, doc_id))>>

\* lines 133-138: one iteration of `for future in as_completed(futures)`;
\* future.result() re-raises the task's exception
Collect ==
    /\ call_pc = "collecting"
    /\ collected < Len(completion)
    /\ LET doc_id == FutureDoc(collected + 1)
       IN  IF futures[doc_id].st = "raised"
           THEN /\ call_pc' = "unwinding"
                /\ UNCHANGED <<collected, scores>>
           ELSE /\ scores' = Append(scores, ScoreEntry(doc_id, futures[doc_id].val))
                /\ collected' = collected + 1
                /\ UNCHANGED call_pc
    /\ UNCHANGED <<rankerVars, query_terms, futures, completion, sorted_results,
                   bm, boost>>

AllFinished == \A d \in DOMAIN futures : futures[d].st # "pending"

\* the exception leaves the `with` block: executor.shutdown(wait=True) joins
\* every task, then rank_documents raises
Unwind ==
    /\ call_pc = "unwinding"
    /\ AllFinished
    /\ call_pc' = "raised"
    /\ UNCHANGED <<rankerVars, query_terms, futures, completion, collected, scores,
                   sorted_results, bm, boost>>

\* the loop left after the first consumed future
LoopDoneAfterFirst == collected >= 1 \/ DOMAIN futures = {}

\* the loop is exhausted once every future has been consumed
LoopDone == collected = Cardinality(DOMAIN futures)

\* lines 140-141
SortAndReturn ==
    /\ call_pc = "collecting"
    /\ LoopDone
    /\ sorted_results' = SortedByScoreReverse(scores)
    /\ call_pc' = "returned"
    /\ UNCHANGED <<rankerVars, query_terms, futures, completion, collected, scores,
                   bm, boost>>

Next ==
    \/ Construct
    \/ \E terms \in Queries : StartRank(terms)
    \/ \E d \in 1..MaxDocs : TaskFinish(d)
    \/ Collect
    \/ Unwind
    \/ SortAndReturn

Spec == Init /\ [][Next]_vars

-----------------------------------------------------------------------------
(* The authority computation alone, over every link table *)

InitPR ==
    /\ \E docs \in DocSets :
       \E table \in LinkTables(docs) :
       \E t \in {<<>>, ("cat" :> NoPosting(docs)), ("cat" :> LinkTo(docs, 1))} :
         NewRanker([terms |-> t, ints |-> LinkIndex(docs, table)],
                   [d \in docs |-> 10], Defaults)
    /\ IdleCall
    /\ bm = NoBm
    /\ boost = NoBoost

NextPR == Construct

SpecPR == InitPR /\ [][NextPR]_vars

-----------------------------------------------------------------------------
(* The two relevance functions alone *)

InitBM ==
    /\ \E docs \in DocSets \ {{}} :
       \E lengths \in LengthProfiles(docs) :
       \E t \in TermIndexes(docs, {Absent, 2}) :
       \E tn \in TunableChoices :
         NewRanker([terms |-> t, ints |-> <<>>], lengths, tn)
    /\ IdleCall
    /\ bm = NoBm
    /\ boost = NoBoost

\* one call of each variant on the same arguments
Score(terms, doc_id) ==
    /\ bm.st = "new"
    /\ doc_id \in DOMAIN doc_lengths
    /\ bm' = [st |-> "done", terms |-> terms, doc |-> doc_id,
              bm25 |-> calculate_bm25_score(inverted_index, doc_lengths,
                                            avg_doc_length, terms, doc_id,
                                            tunables.k1, tunables.b),
              plus |-> calculate_bm25_plus_score(inverted_index, doc_lengths,
                                                 avg_doc_length, terms, doc_id,
                                                 tunables.k1_plus, tunables.b_plus)]
    /\ UNCHANGED <<rankerVars, boost>>
    /\ UNCHANGED callVars

NextBM == \E terms \in Queries, d \in 1..MaxDocs : Score(terms, d)

SpecBM == InitBM /\ [][NextBM]_vars

-----------------------------------------------------------------------------
(* apply_boosting alone *)

InitBoost ==
    /\ NewRanker(NoKeys, <<>>, Defaults)
    /\ IdleCall
    /\ bm = NoBm
    /\ \E q \in SeqsUpTo(Terms, MaxBoostLen), m \in BoostMaps :
         boost = [st |-> "new", query_terms |-> q, boost_terms |-> m, out |-> <<>>]

ApplyBoosting ==
    /\ boost.st = "new"
    /\ boost' = [boost EXCEPT !.st = "done",
                              !.out = apply_boosting(boost.query_terms,
                                                     boost.boost_terms)]
    /\ UNCHANGED <<rankerVars, bm>>
    /\ UNCHANGED callVars

NextBoost == ApplyBoosting

SpecBoost == InitBoost /\ [][NextBoost]_vars

-----------------------------------------------------------------------------
(* Properties *)

Docs == DOMAIN doc_lengths
CallEnded == call_pc \in {"returned", "raised"}
Raised == {d \in DOMAIN futures : futures[d].st = "raised"}

\* the authority of a document, thousandths, 0 when it has no entry
AuthorityOf(d) ==
    IF d \in page_rank_scores.keys
    THEN (page_rank_scores.num[d] * Milli) \div page_rank_scores.den
    ELSE 0

\* C1: the returned sequence is ordered by descending combined score, and
\* documents of equal combined score are in ascending identifier order,
\* whatever the completion order of the tasks was.
C1_OrderIndependentOfCompletion ==
    call_pc = "returned" =>
        \A i \in 1..(Len(sorted_results) - 1) :
            \/ FLt(sorted_results[i + 1][2], sorted_results[i][2])
            \/ /\ sorted_results[i][2] = sorted_results[i + 1][2]
               /\ sorted_results[i][1] < sorted_results[i + 1][1]

\* C2: when the scoring task of exactly one document raised, the call ends by
\* returning, with that document scored at relevance 0 and every other
\* document at its task's relevance.
C2_TaskFailureIsolated ==
    (CallEnded /\ Cardinality(Raised) = 1) =>
        /\ call_pc = "returned"
        /\ \A d \in Docs :
             \E i \in 1..Len(sorted_results) :
                sorted_results[i] =
                    ScoreEntry(d, IF d \in Raised THEN Fin(0) ELSE futures[d].val)

\* C3: one task per key of doc_lengths; the call ends only when every task
\* has finished; the returned sequence has exactly one entry per document.
C3_OneEntryPerDocument ==
    /\ call_pc # "idle" => DOMAIN futures = Docs
    /\ CallEnded => \A d \in Docs : futures[d].st # "pending"
    /\ call_pc = "returned" =>
         /\ Len(sorted_results) = Cardinality(Docs)
         /\ \A d \in Docs :
              Cardinality({i \in 1..Len(sorted_results) : sorted_results[i][1] = d}) = 1

C3_Witness ==
    /\ call_pc = "returned"
    /\ Len(sorted_results) >= 2
    /\ completion[1] # 1

\* C4: every returned entry (doc, s) has
\* s = contentWeight * relevance(doc) + authorityWeight * authority(doc),
\* relevance(doc) the result of doc's own task, authority 0 for a document
\* without an entry in the authority mapping.
C4_CombinedScoreFormula ==
    call_pc = "returned" =>
        \A i \in 1..Len(sorted_results) :
            LET d == sorted_results[i][1]
            IN  /\ futures[d].st = "done"
                /\ IF futures[d].val.tag = "fin"
                   THEN /\ sorted_results[i][2].tag = "fin"
                        /\ sorted_results[i][2].v =
                              (ContentWeight * futures[d].val.v) \div Milli
                              + (PagerankWeight * AuthorityOf(d)) \div Milli
                   ELSE sorted_results[i][2] = futures[d].val

C4_Witness ==
    /\ call_pc = "returned"
    /\ \E i, j \in 1..Len(sorted_results) :
         /\ FLt(Fin(0), futures[sorted_results[i][1]].val)
         /\ futures[sorted_results[j][1]].val = Fin(0)
         /\ sorted_results[i][2] # sorted_results[j][2]
    /\ \E d \in Docs : d \notin page_rank_scores.keys

\* C5: calculate_page_rank_scores_scipy never raises; on an empty index, a
\* graph without nodes or edges, or a failure of any step, the mapping is
\* empty, and ranking then scores every document with authority 0.
C5_AuthorityNeverRaises ==
    /\ init_pc # "raised"
    /\ (init_pc = "ready" /\ pr_status # "ok") => page_rank_scores.keys = {}
    /\ (init_pc = "ready"
        /\ (IndexEmpty(inverted_index) \/ ~HasEdges(inverted_index)
            \/ IntNodes(inverted_index, doc_lengths) = {}))
         => page_rank_scores.keys = {}
    /\ page_rank_scores.keys = {} =>
         \A i \in 1..Len(scores) :
            scores[i][2] = FMul(Fin(ContentWeight), futures[scores[i][1]].val)

C5_Witness ==
    /\ init_pc = "ready"
    /\ pr_status \in {"solver_raised", "sort_raised"}
    /\ call_pc = "returned"
    /\ \E i \in 1..Len(sorted_results) : FLt(Fin(0), sorted_results[i][2])

\* C6: with a query that expands to no terms no scoring task fails, every
\* task returns relevance 0, and the call returns all documents ordered by
\* authority, equal authorities in ascending identifier order.
C6_EmptyQueryRanksByAuthority ==
    (call_pc # "idle" /\ query_terms = <<>>) =>
        /\ call_pc \notin {"unwinding", "raised"}
        /\ \A d \in DOMAIN futures :
             futures[d].st = "done" => futures[d].val = Fin(0)
        /\ \A d \in DOMAIN futures : futures[d].st # "raised"
        /\ call_pc = "returned" =>
             /\ Len(sorted_results) = Cardinality(Docs)
             /\ \A i \in 1..(Len(sorted_results) - 1) :
                  LET x == sorted_results[i][1]
                      y == sorted_results[i + 1][1]
                  IN  \/ AuthorityOf(x) > AuthorityOf(y)
                      \/ AuthorityOf(x) = AuthorityOf(y) /\ x < y

\* C7: when the graph has a node and an edge and the solver succeeds, the
\* mapping is keyed by document identifiers, every value is >= 0 and the
\* values sum to 1.
C7_AuthorityIsDistribution ==
    (init_pc = "ready" /\ pr_status = "ok") =>
        /\ page_rank_scores.keys \subseteq Docs
        /\ page_rank_scores.den > 0
        /\ \A k \in page_rank_scores.keys : page_rank_scores.num[k] >= 0
        /\ SumOver(page_rank_scores.num, page_rank_scores.keys) = page_rank_scores.den

\* a new ranking call replaces the futures of the previous one
NewCallStarts == call_pc \in {"idle", "returned", "raised"} /\ call_pc' = "collecting"

FinishedResultsKept ==
    \A d \in DOMAIN futures :
        futures[d].st # "pending" =>
            (d \in DOMAIN futures' /\ futures'[d] = futures[d])

C8_Step ==
    init_pc = "ready" =>
        /\ UNCHANGED <<inverted_index, doc_lengths, page_rank_scores>>
        /\ (NewCallStarts \/ FinishedResultsKept)

\* C8: after construction no step of any ranking call changes the inverted
\* index, doc_lengths or the authority mapping, and a finished task's result
\* is not changed by any other task of the call.
C8_RankingFrame == [][C8_Step]_vars

C8_Witness ==
    /\ call_pc = "returned"
    /\ page_rank_scores.keys # {}
    /\ Len(completion) >= 2
    /\ query_terms # <<>>

\* the sum over the query terms whose denominator is not 0
RECURSIVE GuardedSum(_, _, _, _)
GuardedSum(terms, doc_id, k, b) ==
    IF terms = <<>> THEN 0
    ELSE LET tf == calculate_tf(inverted_index, doc_lengths, Head(terms), doc_id)
             den == Denominator(tf, k, b, doc_lengths[doc_id], avg_doc_length)
             idf == calculate_idf(inverted_index, doc_lengths, Head(terms)).v
         IN  (IF den = 0 THEN 0
              ELSE (idf * ((tf * (k + Milli) * Milli) \div den)) \div Milli)
             + GuardedSum(Tail(terms), doc_id, k, b)

\* C9: in both variants a term whose denominator is 0 contributes 0: the
\* score is a finite number >= 0, the sum over the remaining terms.
C9_ZeroDenominatorContributesZero ==
    bm.st = "done" =>
        /\ bm.bm25.st = "done" =>
             /\ bm.bm25.val.tag = "fin"
             /\ bm.bm25.val.v >= 0
             /\ bm.bm25.val.v = GuardedSum(bm.terms, bm.doc, tunables.k1, tunables.b)
        /\ bm.plus.st = "done" =>
             /\ bm.plus.val.tag = "fin"
             /\ bm.plus.val.v >= 0
             /\ bm.plus.val.v
                  = GuardedSum(bm.terms, bm.doc, tunables.k1_plus, tunables.b_plus)

\* floor(multiplier) copies, none when that is not positive
CopiesOf(term, boost_terms) ==
    IF term \in DOMAIN boost_terms
    THEN (IF boost_terms[term] < Milli THEN 0 ELSE boost_terms[term] \div Milli)
    ELSE 1

RECURSIVE OffsetOf(_, _, _)
OffsetOf(terms, boost_terms, i) ==
    IF i = 0 THEN 0
    ELSE OffsetOf(terms, boost_terms, i - 1) + CopiesOf(terms[i], boost_terms)

C10_Blocks ==
    boost.st = "done" =>
        LET q == boost.query_terms
            m == boost.boost_terms
        IN  /\ Len(boost.out) = OffsetOf(q, m, Len(q))
            /\ \A i \in 1..Len(q) :
                 \A j \in (OffsetOf(q, m, i - 1) + 1)..OffsetOf(q, m, i) :
                    boost.out[j] = q[i]

\* C10: the output holds, for each input term in input order, floor(multiplier)
\* consecutive copies of a boosted term and one copy of any other term; the
\* input sequence and the boost mapping are left as they were.
C10_BoostingBlocks ==
    /\ []C10_Blocks
    /\ [][/\ boost'.query_terms = boost.query_terms
          /\ boost'.boost_terms = boost.boost_terms]_vars

C10_Witness ==
    /\ boost.st = "done"
    /\ Len(boost.query_terms) >= 2
    /\ \E i \in 1..Len(boost.query_terms) :
         /\ boost.query_terms[i] \in DOMAIN boost.boost_terms
         /\ boost.boost_terms[boost.query_terms[i]] > 2 * Milli
    /\ \E i \in 1..Len(boost.query_terms) :
         boost.query_terms[i] \notin DOMAIN boost.boost_terms

====
